---- MODULE Spec2Model ----
(***************************************************************************)
(* SRKAdditive.step of torchsde/core/methods/additive/srk.py: one step of  *)
(* the strong order 1.5 stochastic Runge-Kutta scheme for additive noise.  *)
(*                                                                         *)
(* Numbers are exact rationals <<n, d>> (d > 0, lowest terms); a tensor is *)
(* one number per block together with its dtype.  The collaborators        *)
(* (sde.f, sde.g, bm, torch.randn_like) are drawn from small families and  *)
(* log every call they receive.                                            *)
(***************************************************************************)
EXTENDS Integers, Sequences, FiniteSets, TLC

VARIABLES
    tab,                 \* the tableau imported at module level (STAGES, C0, ...)
    options,             \* self.options['trapezoidal_approx']: "absent", TRUE or FALSE
    trapezoidal_approx,  \* self.trapezoidal_approx
    sdeF, sdeG,          \* self.sde: which drift and which diffusion
    bmPath,              \* self.bm: which Brownian path (the seed)
    pc,                  \* position inside step
    t0, y0, dt,          \* the arguments of step; y0 is the caller's object
    y0AtEntry,           \* the value of y0 when step was entered
    grad, gradAtEntry,   \* torch's gradient mode, and its value at entry
    gradPrev,            \* what torch.no_grad() saved on entry
    I_k, I_k0,           \* the stochastic integrals
    modeUsed,            \* which branch of lines 55-58 produced I_k0
    t1, y1, y1Alias,     \* the result under construction; y1Alias: y1 is y0
    H0, H0i, H0iAlias,   \* the stages; H0iAlias: H0i is y0
    i, j,                \* the loop indices (0-based, as in the source)
    fLog, gLog,          \* the calls sde.f and sde.g received
    bmLog, randLog,      \* the calls bm and torch.randn_like received
    ret, err             \* what step returned (<<>>: nothing) or raised

vars == <<tab, options, trapezoidal_approx, sdeF, sdeG, bmPath, pc, t0, y0, dt,
          y0AtEntry, grad, gradAtEntry, gradPrev, I_k, I_k0, modeUsed, t1, y1,
          y1Alias, H0, H0i, H0iAlias, i, j, fLog, gLog, bmLog, randLog, ret, err>>

config == <<tab, options, trapezoidal_approx, sdeF, sdeG, bmPath>>

----------------------------------------------------------------------------
(* Bounds *)

MaxStages == 2

----------------------------------------------------------------------------
(* Exact arithmetic *)

Abs(n) == IF n < 0 THEN -n ELSE n

RECURSIVE GCD(_, _)
GCD(a, b) == IF b = 0 THEN a ELSE GCD(b, a % b)

Norm(n, d) ==
    LET s == IF d < 0 THEN -1 ELSE 1
        g == GCD(Abs(n), Abs(d))
    IN  <<(s * n) \div g, (s * d) \div g>>

R(n) == <<n, 1>>
RAdd(a, b) ==
    LET g == GCD(a[2], b[2])
    IN  Norm(a[1] * (b[2] \div g) + b[1] * (a[2] \div g), (a[2] \div g) * b[2])
RSub(a, b) == RAdd(a, <<-b[1], b[2]>>)
RMul(a, b) ==
    LET g1 == GCD(Abs(a[1]), b[2])
        g2 == GCD(Abs(b[1]), a[2])
    IN  Norm((a[1] \div g1) * (b[1] \div g2), (a[2] \div g2) * (b[2] \div g1))
RDiv(a, b) == RMul(a, IF b[1] < 0 THEN <<-b[2], -b[1]>> ELSE <<b[2], b[1]>>)
RPos(a) == a[1] > 0

ISqrt(n) == CHOOSE k \in 0..n : k * k = n

\* sqrt_dt / math.sqrt(3): exact for the step sizes of DtSet, where dt / 3 is
\* the square of a rational.
SqrtDtOverSqrt3(d) ==
    LET q == RDiv(d, R(3)) IN <<ISqrt(q[1]), ISqrt(q[2])>>

----------------------------------------------------------------------------
(* Tensors: one number per block, with a dtype *)

DTypes == {"float32", "float64"}

\* float32 keeps multiples of 1/4 only; float64 is exact.
Cast(v, dtype) ==
    IF dtype = "float32"
    THEN Norm((8 * v[1] + v[2]) \div (2 * v[2]), 4)
    ELSE v

Tensor(v, dtype) == [val |-> v, dtype |-> dtype]

\* x.to(ref)
To(x, ref) == Tensor(Cast(x.val, ref.dtype), ref.dtype)

\* x - y, x + c and c * x on one block (the dtype of the left operand is kept)
TSub(x, y) == Tensor(RSub(x.val, y.val), x.dtype)
TAdd(x, c) == Tensor(RAdd(x.val, c), x.dtype)
TScale(c, x) == Tensor(RMul(c, x.val), x.dtype)

\* misc.batch_mvp(g_eval_, v): the diffusion operator of a block applied to
\* the noise vector of that block
batch_mvp(g, v) == RMul(g, v)

----------------------------------------------------------------------------
(* The tableau (torchsde.core.methods.tableaus.sra1) *)

\* Roessler's SRA1 coefficients.
SRA1 ==
    [STAGES |-> 2,
     C0     |-> <<R(0), <<3, 4>>>>,
     C1     |-> <<R(1), R(0)>>,
     A0     |-> << <<>>, << <<3, 4>> >> >>,
     B0     |-> << <<>>, << <<3, 2>> >> >>,
     alpha  |-> << <<1, 3>>, <<2, 3>> >>,
     beta1  |-> <<R(1), R(0)>>,
     beta2  |-> <<R(-1), R(1)>>]

\* The single-stage Euler-Maruyama tableau.
EulerTableau ==
    [STAGES |-> 1,
     C0     |-> <<R(0)>>,
     C1     |-> <<R(0)>>,
     A0     |-> << <<>> >>,
     B0     |-> << <<>> >>,
     alpha  |-> <<R(1)>>,
     beta1  |-> <<R(1)>>,
     beta2  |-> <<R(0)>>]

\* A tableau of the same shape with S stages: strictly lower-triangular A0 and
\* B0, C0[0] = 0 and, as in SRA1, C1[0] = 1.
TestTableau(S) ==
    [STAGES |-> S,
     C0     |-> [k \in 1..S |-> Norm(k - 1, S)],
     C1     |-> [k \in 1..S |-> Norm(S - k + 1, S)],
     A0     |-> [k \in 1..S |-> [m \in 1..(k - 1) |-> Norm(1, k - 1)]],
     B0     |-> [k \in 1..S |-> [m \in 1..(k - 1) |-> R(m)]],
     alpha  |-> [k \in 1..S |-> Norm(1, S)],
     beta1  |-> [k \in 1..S |-> R(2 - k)],
     beta2  |-> [k \in 1..S |-> R(k - 2)]]

Tableaus == {SRA1, EulerTableau} \cup {TestTableau(S) : S \in 1..MaxStages}

STAGES == tab.STAGES
C0(k) == tab.C0[k + 1]
C1(k) == tab.C1[k + 1]
A0(k, m) == tab.A0[k + 1][m + 1]
B0(k, m) == tab.B0[k + 1][m + 1]
alpha(k) == tab.alpha[k + 1]
beta1(k) == tab.beta1[k + 1]
beta2(k) == tab.beta2[k + 1]

----------------------------------------------------------------------------
(* The collaborators *)

OptionValues == {"absent", "true", "false"}
DriftFamily == {"zero", "linear", "coupled"}
DiffusionFamily == {"zero", "additive", "state"}
BmPaths == {"flat", "linear", "curved"}

Other(b, n) == (b % n) + 1

\* self.sde.f(t, y): one number per block
sde_f(fam, t, y) ==
    [b \in 1..Len(y) |->
        CASE fam = "zero"    -> R(0)
          [] fam = "linear"  -> RSub(t, y[b].val)
          [] fam = "coupled" -> y[Other(b, Len(y))].val]

\* self.sde.g(t, y): one operator per block
sde_g(fam, t, y) ==
    [b \in 1..Len(y) |->
        CASE fam = "zero"     -> R(0)
          [] fam = "additive" -> RAdd(R(b), t)
          [] fam = "state"    -> y[b].val]

\* self.bm(t): the value of the path at t, one float64 tensor per block
bm(path, t, n) ==
    [b \in 1..n |->
        Tensor(CASE path = "flat"   -> R(0)
                 [] path = "linear" -> RMul(<<b, 3>>, t)
                 [] path = "curved" -> RSub(RMul(<<1, 8>>, RMul(t, t)), R(b)),
               "float64")]

\* torch.randn_like(delta_bm_) for every block: the draws of one step
ZSet == {<<R(0), R(0)>>, <<R(1), R(-1)>>, <<R(-1), R(2)>>}

\* The inputs of step
T0Set == {R(0), R(1)}
DtSet == {R(-1), R(0), R(3), <<3, 4>>}
Y0Set == {<<Tensor(R(1), "float32"), Tensor(R(2), "float32")>>,
          <<Tensor(R(1), "float32"), Tensor(<<1, 3>>, "float64")>>,
          <<Tensor(R(-1), "float64"), Tensor(R(0), "float32")>>}

----------------------------------------------------------------------------
(* The pieces of step *)

\* Variant: the option defaults to off when it is absent.
InitTrapezoidalDefaultOff(opts) == opts = "true"

\* __init__, lines 44-47
InitTrapezoidal(opts) == ~(opts # "absent" /\ opts = "false")

\* Variant: the check lets dt = 0 through.
ValidDtNonNegative(d) == d[1] >= 0

\* assert dt > 0
ValidDt(d) == RPos(d)

\* Variant: leaving the block leaves tracking off.
NoGradExitLeavesOff(prev) == FALSE

\* torch.no_grad().__exit__: the saved mode is restored
NoGradExit(prev) == prev

\* line 54
Compute_I_k(path, t, y, d) ==
    [b \in 1..Len(y) |->
        To(TSub(bm(path, RAdd(t, d), Len(y))[b], bm(path, t, Len(y))[b]), y[1])]

\* the times line 54 asks the Brownian source for, in order
Queries_I_k(t, d) == <<RAdd(t, d), t>>

\* utils.compute_trapezoidal_approx: the trapezoidal rule for the integral of
\* W_s - W_t0 over [t0, t0 + dt] on the path sampled at t0, t0 + dt/2, t0 + dt
compute_trapezoidal_approx(path, t, y, d) ==
    [b \in 1..Len(y) |->
        LET W0 == bm(path, t, Len(y))[b]
            Wm == bm(path, RAdd(t, RDiv(d, R(2))), Len(y))[b]
            W1 == bm(path, RAdd(t, d), Len(y))[b]
        IN  TScale(RDiv(d, R(4)),
                   TAdd(TScale(R(2), TSub(Wm, W0)), TSub(W1, W0).val))]

Queries_trapezoidal(t, d) == <<t, RAdd(t, RDiv(d, R(2))), RAdd(t, d)>>

\* Variant: the two branches of the conditional are swapped.
UseTrapezoidalInverted(flag) == ~flag

\* line 56: `if self.trapezoidal_approx`
UseTrapezoidal(flag) == flag

\* line 57
Gaussian_I_k0(Ik, d, Z) ==
    [b \in 1..Len(Ik) |->
        TScale(RDiv(d, R(2)), TAdd(Ik[b], RMul(Z[b], SqrtDtOverSqrt3(d))))]

\* Variant: the diffusion is evaluated at the stage value.
DiffusionAtStage(y, H) == H

\* the state handed to sde.g (lines 66 and 76)
DiffusionState(y, H) == y

\* Variant: the inner loop stops one stage early.
InnerLoopSkipsLast(ii, jj) == jj < ii - 1

\* the inner loop runs while j < i (line 64)
InnerLoopActive(ii, jj) == jj < ii

\* Variant: I_k0 enters the stage without the diffusion operator applied.
Update_H0i_NoOperator(H, f_eval, g_eval, Ik0, d, a, bb) ==
    [b \in 1..Len(H) |->
        TAdd(H[b],
             RAdd(RMul(RMul(a, f_eval[b]), d),
                  RDiv(RMul(bb, Ik0[b].val), d)))]

\* lines 68-71
Update_H0i(H, f_eval, g_eval, Ik0, d, a, bb) ==
    [b \in 1..Len(H) |->
        TAdd(H[b],
             RAdd(RMul(RMul(a, f_eval[b]), d),
                  RDiv(RMul(bb, batch_mvp(g_eval[b], Ik0[b].val)), d)))]

\* Variant: I_k0 is not divided by dt in the weight.
Compute_g_weight_NoDt(Ik, Ik0, d, b1, b2) ==
    [b \in 1..Len(Ik) |->
        RAdd(RMul(b1, Ik[b].val), RMul(b2, Ik0[b].val))]

\* lines 78-81
Compute_g_weight(Ik, Ik0, d, b1, b2) ==
    [b \in 1..Len(Ik) |->
        RAdd(RMul(b1, Ik[b].val), RDiv(RMul(b2, Ik0[b].val), d))]

\* lines 83-86
Update_y1(y, f_eval, g_eval, g_weight, d, al) ==
    [b \in 1..Len(y) |->
        TAdd(y[b],
             RAdd(RMul(RMul(al, f_eval[b]), d),
                  batch_mvp(g_eval[b], g_weight[b])))]

\* Variant: the update is made in place, through the alias.
CallerY0InPlace(y, alias, new) == IF alias THEN new ELSE y

\* What the caller's y0 holds after a tuple comprehension has built `new` from
\* a tuple that may be y0 itself: the comprehension allocates, y0 is not written.
CallerY0After(y, alias, new) == y

\* what a collaborator sees of one call: its arguments and the gradient mode
SdeCall(t, y) == [t |-> t, y |-> y, grad |-> grad]
BmQuery(t) == [t |-> t, grad |-> grad]
BmQueries(ts) == [k \in 1..Len(ts) |-> BmQuery(ts[k])]
RandCall(b) == [block |-> b, grad |-> grad]

----------------------------------------------------------------------------
(* The state machine *)

NoTensor == <<>>

Locals ==
    /\ I_k = NoTensor /\ I_k0 = NoTensor /\ modeUsed = "none"
    /\ t1 = R(0) /\ y1 = NoTensor /\ y1Alias = FALSE
    /\ H0 = <<>> /\ H0i = NoTensor /\ H0iAlias = FALSE
    /\ i = 0 /\ j = 0
    /\ fLog = <<>> /\ gLog = <<>> /\ bmLog = <<>> /\ randLog = <<>>
    /\ ret = <<>> /\ err = "none"

\* The solver as __init__ leaves it, no step running.
Init ==
    /\ tab \in Tableaus
    /\ options \in OptionValues
    /\ trapezoidal_approx = InitTrapezoidal(options)
    /\ sdeF \in DriftFamily
    /\ sdeG \in DiffusionFamily
    /\ bmPath \in BmPaths
    /\ pc = "idle"
    /\ t0 = R(0) /\ y0 = NoTensor /\ dt = R(0) /\ y0AtEntry = NoTensor
    /\ grad = TRUE /\ gradAtEntry = TRUE /\ gradPrev = TRUE
    /\ Locals

\* The driver calls step(t0, y0, dt), in either gradient mode.
Enter ==
    /\ pc = "idle"
    /\ \E t \in T0Set, y \in Y0Set, d \in DtSet, g \in BOOLEAN :
          /\ t0' = t /\ y0' = y /\ dt' = d /\ y0AtEntry' = y
          /\ grad' = g /\ gradAtEntry' = g
    /\ pc' = "assert"
    /\ UNCHANGED <<config, gradPrev, I_k, I_k0, modeUsed, t1, y1, y1Alias, H0,
                   H0i, H0iAlias, i, j, fLog, gLog, bmLog, randLog, ret, err>>

\* line 50, and entering torch.no_grad() on line 52
CheckDt ==
    /\ pc = "assert"
    /\ IF ValidDt(dt)
       THEN /\ pc' = "I_k"
            /\ gradPrev' = grad
            /\ grad' = FALSE
            /\ err' = err
       ELSE /\ pc' = "failed"
            /\ err' = "AssertionError"
            /\ UNCHANGED <<grad, gradPrev>>
    /\ UNCHANGED <<config, t0, y0, dt, y0AtEntry, gradAtEntry, I_k, I_k0,
                   modeUsed, t1, y1, y1Alias, H0, H0i, H0iAlias, i, j, fLog,
                   gLog, bmLog, randLog, ret>>

\* line 54
ComputeIk ==
    /\ pc = "I_k"
    /\ I_k' = Compute_I_k(bmPath, t0, y0, dt)
    /\ bmLog' = bmLog \o BmQueries(Queries_I_k(t0, dt))
    /\ pc' = "I_k0"
    /\ UNCHANGED <<config, t0, y0, dt, y0AtEntry, grad, gradAtEntry, gradPrev,
                   I_k0, modeUsed, t1, y1, y1Alias, H0, H0i, H0iAlias, i, j,
                   fLog, gLog, randLog, ret, err>>

\* lines 55-58, leaving torch.no_grad(), and lines 60-61
ComputeIk0 ==
    /\ pc = "I_k0"
    /\ IF UseTrapezoidal(trapezoidal_approx)
       THEN /\ I_k0' = compute_trapezoidal_approx(bmPath, t0, y0, dt)
            /\ bmLog' = bmLog \o BmQueries(Queries_trapezoidal(t0, dt))
            /\ modeUsed' = "trapezoidal"
            /\ randLog' = randLog
       ELSE /\ \E Z \in ZSet : I_k0' = Gaussian_I_k0(I_k, dt, Z)
            /\ randLog' = randLog \o [b \in 1..Len(I_k) |-> RandCall(b)]
            /\ modeUsed' = "gaussian"
            /\ bmLog' = bmLog
    /\ grad' = NoGradExit(gradPrev)
    /\ t1' = RAdd(t0, dt)
    /\ y1' = y0
    /\ y1Alias' = TRUE
    /\ H0' = <<>>
    /\ i' = 0
    /\ pc' = "stage"
    /\ UNCHANGED <<config, t0, y0, dt, y0AtEntry, gradAtEntry, gradPrev, I_k,
                   H0i, H0iAlias, j, fLog, gLog, ret, err>>

\* bm raises inside the no_grad block: the block is left, the error propagates
FailBm ==
    /\ \/ pc = "I_k"
       \/ pc = "I_k0" /\ UseTrapezoidal(trapezoidal_approx)
    /\ \E n \in 1..Len(IF pc = "I_k" THEN Queries_I_k(t0, dt)
                       ELSE Queries_trapezoidal(t0, dt)) :
          bmLog' = bmLog \o SubSeq(BmQueries(IF pc = "I_k" THEN Queries_I_k(t0, dt)
                                             ELSE Queries_trapezoidal(t0, dt)), 1, n)
    /\ grad' = NoGradExit(gradPrev)
    /\ pc' = "failed"
    /\ err' = "BrownianSourceError"
    /\ UNCHANGED <<config, t0, y0, dt, y0AtEntry, gradAtEntry, gradPrev, I_k,
                   I_k0, modeUsed, t1, y1, y1Alias, H0, H0i, H0iAlias, i, j,
                   fLog, gLog, randLog, ret>>

\* lines 62-63
StageBegin ==
    /\ pc = "stage"
    /\ i < STAGES
    /\ H0i' = y0
    /\ H0iAlias' = TRUE
    /\ j' = 0
    /\ pc' = "inner"
    /\ UNCHANGED <<config, t0, y0, dt, y0AtEntry, grad, gradAtEntry, gradPrev,
                   I_k, I_k0, modeUsed, t1, y1, y1Alias, H0, i, fLog, gLog,
                   bmLog, randLog, ret, err>>

\* lines 65-72: one pass of the inner loop
InnerEval ==
    /\ pc = "inner"
    /\ InnerLoopActive(i, j)
    /\ LET tf == RAdd(t0, RMul(C0(j), dt))
           tg == RAdd(t0, RMul(C1(j), dt))
           yg == DiffusionState(y0, H0[j + 1])
           f_eval == sde_f(sdeF, tf, H0[j + 1])
           g_eval == sde_g(sdeG, tg, yg)
           new == Update_H0i(H0i, f_eval, g_eval, I_k0, dt, A0(i, j), B0(i, j))
       IN  /\ fLog' = Append(fLog, SdeCall(tf, H0[j + 1]))
           /\ gLog' = Append(gLog, SdeCall(tg, yg))
           /\ H0i' = new
           /\ y0' = CallerY0After(y0, H0iAlias, new)
    /\ H0iAlias' = FALSE
    /\ j' = j + 1
    /\ UNCHANGED <<config, pc, t0, dt, y0AtEntry, grad, gradAtEntry, gradPrev,
                   I_k, I_k0, modeUsed, t1, y1, y1Alias, H0, i, bmLog, randLog,
                   ret, err>>

\* line 73
InnerDone ==
    /\ pc = "inner"
    /\ ~InnerLoopActive(i, j)
    /\ H0' = Append(H0, H0i)
    /\ pc' = "outer"
    /\ UNCHANGED <<config, t0, y0, dt, y0AtEntry, grad, gradAtEntry, gradPrev,
                   I_k, I_k0, modeUsed, t1, y1, y1Alias, H0i, H0iAlias, i, j,
                   fLog, gLog, bmLog, randLog, ret, err>>

\* lines 75-86
OuterEval ==
    /\ pc = "outer"
    /\ LET tf == RAdd(t0, RMul(C0(i), dt))
           tg == RAdd(t0, RMul(C1(i), dt))
           yg == DiffusionState(y0, H0i)
           f_eval == sde_f(sdeF, tf, H0i)
           g_eval == sde_g(sdeG, tg, yg)
           g_weight == Compute_g_weight(I_k, I_k0, dt, beta1(i), beta2(i))
           new == Update_y1(y1, f_eval, g_eval, g_weight, dt, alpha(i))
       IN  /\ fLog' = Append(fLog, SdeCall(tf, H0i))
           /\ gLog' = Append(gLog, SdeCall(tg, yg))
           /\ y1' = new
           /\ y0' = CallerY0After(y0, y1Alias, new)
    /\ y1Alias' = FALSE
    /\ i' = i + 1
    /\ pc' = "stage"
    /\ UNCHANGED <<config, t0, dt, y0AtEntry, grad, gradAtEntry, gradPrev, I_k,
                   I_k0, modeUsed, t1, H0, H0i, H0iAlias, j, bmLog, randLog,
                   ret, err>>

\* sde.f or sde.g raises (lines 65, 66, 75, 76): the error propagates
FailSde ==
    /\ \/ pc = "inner" /\ InnerLoopActive(i, j)
       \/ pc = "outer"
    /\ LET k == IF pc = "inner" THEN j ELSE i
           H == IF pc = "inner" THEN H0[j + 1] ELSE H0i
           tf == RAdd(t0, RMul(C0(k), dt))
           tg == RAdd(t0, RMul(C1(k), dt))
       IN  /\ fLog' = Append(fLog, SdeCall(tf, H))
           /\ \/ gLog' = gLog
              \/ gLog' = Append(gLog, SdeCall(tg, DiffusionState(y0, H)))
    /\ pc' = "failed"
    /\ err' = "SdeError"
    /\ UNCHANGED <<config, t0, y0, dt, y0AtEntry, grad, gradAtEntry, gradPrev,
                   I_k, I_k0, modeUsed, t1, y1, y1Alias, H0, H0i, H0iAlias, i, j,
                   bmLog, randLog, ret>>

\* line 87
Return ==
    /\ pc = "stage"
    /\ ~(i < STAGES)
    /\ ret' = <<t1, y1>>
    /\ pc' = "done"
    /\ UNCHANGED <<config, t0, y0, dt, y0AtEntry, grad, gradAtEntry, gradPrev,
                   I_k, I_k0, modeUsed, t1, y1, y1Alias, H0, H0i, H0iAlias, i, j,
                   fLog, gLog, bmLog, randLog, err>>

\* The driver takes the result or the error; the locals of step are gone.
Leave ==
    /\ pc \in {"done", "failed"}
    /\ pc' = "idle"
    /\ t0' = R(0) /\ y0' = NoTensor /\ dt' = R(0) /\ y0AtEntry' = NoTensor
    /\ grad' = TRUE /\ gradAtEntry' = TRUE /\ gradPrev' = TRUE
    /\ I_k' = NoTensor /\ I_k0' = NoTensor /\ modeUsed' = "none"
    /\ t1' = R(0) /\ y1' = NoTensor /\ y1Alias' = FALSE
    /\ H0' = <<>> /\ H0i' = NoTensor /\ H0iAlias' = FALSE
    /\ i' = 0 /\ j' = 0
    /\ fLog' = <<>> /\ gLog' = <<>> /\ bmLog' = <<>> /\ randLog' = <<>>
    /\ ret' = <<>> /\ err' = "none"
    /\ UNCHANGED config

Next ==
    \/ Enter
    \/ CheckDt
    \/ ComputeIk
    \/ ComputeIk0
    \/ FailBm
    \/ StageBegin
    \/ InnerEval
    \/ InnerDone
    \/ OuterEval
    \/ FailSde
    \/ Return
    \/ Leave

Spec == Init /\ [][Next]_vars

----------------------------------------------------------------------------
(* Reference values for the claims *)

Zeros(n) == [b \in 1..n |-> R(0)]
NB == Len(y0AtEntry)
InStep == pc \notin {"idle", "assert"}

\* The Brownian increment over [t0, t0 + dt] of block b
Increment(b) ==
    TSub(bm(bmPath, RAdd(t0, dt), NB)[b], bm(bmPath, t0, NB)[b])

\* The explicit Runge-Kutta update built from A0, C0 and alpha only
RECURSIVE DetStage(_), DetStageSum(_, _), DetY1Sum(_)
DetStageSum(k, m) ==
    IF m = 0 THEN Zeros(NB)
    ELSE LET prev == DetStageSum(k, m - 1)
             fe == sde_f(sdeF, RAdd(t0, RMul(C0(m - 1), dt)), DetStage(m - 1))
         IN  [b \in 1..NB |->
                 RAdd(prev[b], RMul(RMul(A0(k, m - 1), fe[b]), dt))]
DetStage(k) == [b \in 1..NB |-> TAdd(y0AtEntry[b], DetStageSum(k, k)[b])]
DetY1Sum(k) ==
    IF k = 0 THEN Zeros(NB)
    ELSE LET prev == DetY1Sum(k - 1)
             fe == sde_f(sdeF, RAdd(t0, RMul(C0(k - 1), dt)), DetStage(k - 1))
         IN  [b \in 1..NB |->
                 RAdd(prev[b], RMul(RMul(alpha(k - 1), fe[b]), dt))]
DetY1 == [b \in 1..NB |-> TAdd(y0AtEntry[b], DetY1Sum(STAGES)[b])]

\* The S-stage update as a function of t0, y0, dt, the drift, the diffusion
\* and the two stochastic integrals
RECURSIVE RefStage(_, _), RefStageSum(_, _, _), RefY1Sum(_, _, _)
RefStageSum(Ik0, k, m) ==
    IF m = 0 THEN Zeros(NB)
    ELSE LET prev == RefStageSum(Ik0, k, m - 1)
             fe == sde_f(sdeF, RAdd(t0, RMul(C0(m - 1), dt)), RefStage(Ik0, m - 1))
             ge == sde_g(sdeG, RAdd(t0, RMul(C1(m - 1), dt)), y0AtEntry)
         IN  [b \in 1..NB |->
                 RAdd(prev[b],
                      RAdd(RMul(RMul(A0(k, m - 1), fe[b]), dt),
                           RDiv(RMul(B0(k, m - 1), RMul(ge[b], Ik0[b].val)), dt)))]
RefStage(Ik0, k) ==
    [b \in 1..NB |-> TAdd(y0AtEntry[b], RefStageSum(Ik0, k, k)[b])]
RefY1Sum(Ik, Ik0, k) ==
    IF k = 0 THEN Zeros(NB)
    ELSE LET prev == RefY1Sum(Ik, Ik0, k - 1)
             fe == sde_f(sdeF, RAdd(t0, RMul(C0(k - 1), dt)), RefStage(Ik0, k - 1))
             ge == sde_g(sdeG, RAdd(t0, RMul(C1(k - 1), dt)), y0AtEntry)
             w  == [b \in 1..NB |->
                       RAdd(RMul(beta1(k - 1), Ik[b].val),
                            RDiv(RMul(beta2(k - 1), Ik0[b].val), dt))]
         IN  [b \in 1..NB |->
                 RAdd(prev[b],
                      RAdd(RMul(RMul(alpha(k - 1), fe[b]), dt), RMul(ge[b], w[b])))]
RefY1(Ik, Ik0) ==
    [b \in 1..NB |-> TAdd(y0AtEntry[b], RefY1Sum(Ik, Ik0, STAGES)[b])]

----------------------------------------------------------------------------
(* The claims *)

\* C1: a step with dt <= 0 fails with the step-size error before anything
\* else: no Brownian query, no random draw, no drift or diffusion evaluation,
\* and nothing is returned.
C1_InvalidStepFailsFirst ==
    (InStep /\ dt[1] <= 0) =>
        /\ pc = "failed"
        /\ err = "AssertionError"
        /\ bmLog = <<>> /\ randLog = <<>> /\ fLog = <<>> /\ gLog = <<>>
        /\ ret = <<>>

C1_Witness ==
    /\ pc = "failed" /\ err = "AssertionError"
    /\ dt = R(-1)

\* C2 as stated: every successful step makes exactly S drift and exactly S
\* diffusion evaluations.
C2_ExactlySEvaluations ==
    pc = "done" => (Len(fLog) = STAGES /\ Len(gLog) = STAGES)

\* C2 amended: every successful step makes exactly S(S+1)/2 drift and
\* S(S+1)/2 diffusion evaluations: stage i re-evaluates both at the i earlier
\* stages in its inner loop and once more in its final-combination part.
C2_TriangularEvaluations ==
    pc = "done" =>
        /\ Len(fLog) = (STAGES * (STAGES + 1)) \div 2
        /\ Len(gLog) = (STAGES * (STAGES + 1)) \div 2

C2_Witness ==
    /\ pc = "done" /\ tab = SRA1
    /\ Len(fLog) = 3 /\ Len(gLog) = 3

\* C3: every diffusion evaluation of a step, in the inner loop and in the
\* final-combination part, receives the initial state y0; only its time
\* argument t0 + C1[j]*dt varies.
C3_DiffusionAtY0 ==
    \A k \in 1..Len(gLog) :
        /\ gLog[k].y = y0AtEntry
        /\ \E s \in 0..(STAGES - 1) : gLog[k].t = RAdd(t0, RMul(C1(s), dt))

C3_Witness ==
    /\ pc = "done" /\ STAGES >= 2
    /\ Len(gLog) >= 3
    /\ H0[2] # y0AtEntry
    /\ y1 # y0AtEntry

\* C4: for every block b, I_k[b] is the Brownian increment over [t0, t0+dt]
\* of block b converted to the numeric type of y0[b].
C4_IncrementInOwnBlockType ==
    I_k # NoTensor =>
        \A b \in 1..NB : I_k[b] = To(Increment(b), y0AtEntry[b])

\* C5: with a diffusion that is the zero operator, the returned y1 is the
\* explicit Runge-Kutta update built from A0, C0 and alpha alone, whatever
\* I_k and I_k0 are.
C5_ZeroDiffusionIsRungeKutta ==
    (pc = "done" /\ sdeG = "zero") => ret = <<RAdd(t0, dt), DetY1>>

C5_Witness ==
    /\ pc = "done" /\ sdeG = "zero" /\ STAGES >= 2
    /\ sdeF # "zero"
    /\ modeUsed = "gaussian"
    /\ \E b \in 1..NB : I_k[b].val # R(0) /\ I_k0[b].val # R(0)

\* C6 as stated: with S = 1 the inner loop never runs and the step returns
\* t0 + dt and y0 + alpha[0]*f(t0, y0)*dt + g(t0, y0) applied to
\* (beta1[0]*I_k + beta2[0]*I_k0/dt).
C6_SingleStageAtT0 ==
    (pc = "done" /\ STAGES = 1) =>
        /\ Len(fLog) = 1 /\ Len(gLog) = 1
        /\ ret = <<RAdd(t0, dt),
                   [b \in 1..NB |->
                       TAdd(y0AtEntry[b],
                            RAdd(RMul(RMul(alpha(0), sde_f(sdeF, t0, y0AtEntry)[b]), dt),
                                 RMul(sde_g(sdeG, t0, y0AtEntry)[b],
                                      RAdd(RMul(beta1(0), I_k[b].val),
                                           RDiv(RMul(beta2(0), I_k0[b].val), dt)))))]>>

\* C6 amended: with S = 1 the inner loop never runs and the step returns
\* t0 + dt and y0 + alpha[0]*f(t0 + C0[0]*dt, y0)*dt + g(t0 + C1[0]*dt, y0)
\* applied to (beta1[0]*I_k + beta2[0]*I_k0/dt).
C6_SingleStageAtNodes ==
    (pc = "done" /\ STAGES = 1) =>
        /\ Len(fLog) = 1 /\ Len(gLog) = 1
        /\ ret = <<RAdd(t0, dt),
                   [b \in 1..NB |->
                       TAdd(y0AtEntry[b],
                            RAdd(RMul(RMul(alpha(0),
                                           sde_f(sdeF, RAdd(t0, RMul(C0(0), dt)), y0AtEntry)[b]),
                                      dt),
                                 RMul(sde_g(sdeG, RAdd(t0, RMul(C1(0), dt)), y0AtEntry)[b],
                                      RAdd(RMul(beta1(0), I_k[b].val),
                                           RDiv(RMul(beta2(0), I_k0[b].val), dt)))))]>>

C6_Witness ==
    /\ pc = "done" /\ STAGES = 1
    /\ C1(0) # R(0)
    /\ sdeG = "additive" /\ sdeF = "linear"
    /\ \E b \in 1..NB : I_k[b].val # R(0) /\ I_k0[b].val # R(0)

\* C7: step never changes the caller's y0, whether it returns or raises at
\* any point, and a failed step returns nothing.
C7_Y0Untouched ==
    InStep =>
        /\ y0 = y0AtEntry
        /\ pc = "failed" => ret = <<>>

C7_Witness ==
    /\ pc = "failed" /\ err = "SdeError"
    /\ i >= 1
    /\ y1 # y0AtEntry
    /\ y0 = y0AtEntry

\* C8: in trapezoidal mode a step draws no randomness and its result is a
\* function of (t0, y0, dt), the drift, the diffusion and the Brownian
\* source's answers; only Gaussian-surrogate mode draws.
C8_TrapezoidalDeterministic ==
    /\ randLog # <<>> => (~trapezoidal_approx /\ modeUsed = "gaussian")
    /\ (pc = "done" /\ trapezoidal_approx) =>
          /\ randLog = <<>>
          /\ ret = <<RAdd(t0, dt),
                     RefY1([b \in 1..NB |-> To(Increment(b), y0AtEntry[1])],
                           compute_trapezoidal_approx(bmPath, t0, y0AtEntry, dt))>>

C8_Witness ==
    /\ pc = "done" /\ trapezoidal_approx /\ STAGES >= 2
    /\ sdeG # "zero" /\ bmPath = "curved"
    /\ y1 # DetY1

\* C9: every Brownian query and every Gaussian draw happens with gradient
\* tracking disabled; tracking is back in its state at entry before the first
\* drift or diffusion evaluation, also when the stochastic-integral
\* construction raises; every drift and diffusion evaluation runs in the
\* state tracking had at entry.
C9_NoGradAroundIntegralsOnly ==
    /\ \A k \in 1..Len(bmLog) : ~bmLog[k].grad
    /\ \A k \in 1..Len(randLog) : ~randLog[k].grad
    /\ \A k \in 1..Len(fLog) : fLog[k].grad = gradAtEntry
    /\ \A k \in 1..Len(gLog) : gLog[k].grad = gradAtEntry
    /\ pc \in {"I_k", "I_k0"} => ~grad
    /\ pc \in {"stage", "inner", "outer", "done", "failed"} => grad = gradAtEntry

C9_Witness ==
    /\ pc = "done" /\ gradAtEntry
    /\ randLog # <<>> /\ bmLog # <<>> /\ fLog # <<>> /\ gLog # <<>>

\* C10: the I_k0 mode is fixed by the option trapezoidal_approx alone and
\* defaults to trapezoidal: absent or true gives trapezoidal mode in every
\* step, only false gives Gaussian-surrogate mode, and I_k is the same
\* function of the Brownian path in both modes.
C10_ModeFromOption ==
    /\ trapezoidal_approx <=> options \in {"absent", "true"}
    /\ modeUsed = "trapezoidal" => options \in {"absent", "true"}
    /\ modeUsed = "gaussian" => options = "false"
    /\ pc \in {"stage", "inner", "outer", "done"} => modeUsed # "none"
    /\ I_k # NoTensor =>
          I_k = [b \in 1..NB |-> To(Increment(b), y0AtEntry[1])]

C10_Witness ==
    /\ pc = "done" /\ options = "absent"
    /\ modeUsed = "trapezoidal"
    /\ bmPath # "flat"

====
